---- MODULE Spec2Model ----
(***************************************************************************)
(* Model of cmd/buildlet/stage0 (stage0.go): one run of the bootstrap      *)
(* binary.  The state is the process's inputs (GOOS/GOARCH, environment,   *)
(* flags, platform hooks), the position of main, the locals of the loops   *)
(* of awaitNetwork and download, the exec.Cmd being assembled, and the way *)
(* the process ended.  Time is counted in whole seconds.                   *)
(***************************************************************************)
EXTENDS Integers, Sequences, FiniteSets, TLC

VARIABLES
    goos, goarch,       \* runtime.GOOS, runtime.GOARCH
    goBuilderEnv,       \* os.Getenv("GO_BUILDER_ENV"), read at lines 69, 76, 119, 136, 229
    networkWait,        \* *networkWait, seconds (line 32)
    untarFile,          \* *untarFile (line 40); "" when the flag is not given
    untarDestDir,       \* what *untarDestDir (line 41) names: "", "missing", "file" or "dir"
    serialHooks,        \* configureSerialLogOutput/closeSerialLogOutput non-nil (lines 47-50)
    pc,                 \* position of the process
    serialHeld,         \* the host process holds the serial port for its log output
    closeCount,         \* calls of closeSerialLogOutput so far
    configureCount,     \* calls of configureSerialLogOutput so far
    exitVia,            \* how the process ended: "none", "return", "sleepFatalf", "log.Fatal", "panic"
    exitCode,           \* process exit status, NoExit while running
    fatalMsg,           \* format string handed to sleepFatalf / log.Fatal / panic
    fatalArg,           \* the first argument formatted into that message
    graceSlept,         \* seconds sleepFatalf slept before os.Exit
    validated,          \* the switch of lines 67-86 was passed without panic
    prepLog,            \* host-preparation steps attempted so far, in order
    now,                \* awaitNetwork: time.Now(), seconds since awaitNetwork was entered
    deadline,           \* awaitNetwork: deadline
    lastSpam,           \* awaitNetwork: lastSpam
    t0,                 \* awaitNetwork: t0, start of the latest probe
    failAfter,          \* awaitNetwork: duration of the latest probe
    lastProbe,          \* awaitNetwork: "none", "up" or "down", outcome of the latest probe
    sleptAfterProbe,    \* awaitNetwork: the 1-second sleep ran after the latest probe
    spammed,            \* awaitNetwork: the latest failed probe logged "network still down"
    netResult,          \* awaitNetwork's return value: "none" until it returned, then "true"/"false"
    urlInputs,          \* what buildletURL read: OnGCE, IN_KUBERNETES, META_BUILDLET_BINARY_URL
    urlResolved,        \* buildletURL returned a URL
    url,                \* the URL buildletURL returned
    try,                \* download: try
    lastErr,            \* download: lastErr
    dlErrs,             \* download: result of each httpdl.Download call so far, in order
    dlSleeps,           \* download: the values of try before whose transfer time.Sleep ran
    statErr,            \* download: result of os.Stat, NoErr if it succeeded or was not called
    dlResult,           \* download's return value: "none" until it returned, then NoErr or an error
    chmodDone,          \* os.Chmod(target, 0755) succeeded
    cmdInputs,          \* what main read for the command: uid, USER, HOME, HOSTNAME
    cmdEnv,             \* cmd.Env
    cmdArgs,            \* cmd.Args
    argsBuilt,          \* the switches of lines 119-156 have run
    worker,             \* the buildlet process: "none", "running", "exited"
    untarLog            \* untarMode: the steps it performed, in order

vars == << goos, goarch, goBuilderEnv, networkWait, untarFile, untarDestDir,
           serialHooks, pc,
           serialHeld, closeCount, configureCount, exitVia, exitCode, fatalMsg,
           fatalArg, graceSlept, validated, prepLog, now, deadline, lastSpam, t0,
           failAfter, lastProbe, sleptAfterProbe, spammed, netResult, urlInputs,
           urlResolved, url, try, lastErr, dlErrs, dlSleeps, statErr, dlResult,
           chmodDone, cmdInputs, cmdEnv, cmdArgs, argsBuilt, worker, untarLog >>

(***************************************************************************)
(* Bounds of the model and constants of the program.                       *)
(***************************************************************************)
\* The non-zero value of --network-wait that is tried, in seconds.
MaxNetworkWait == 3

\* 30 * time.Second (line 184)
DefaultTimeout == 30
\* 5 * time.Minute (line 186)
WindowsTimeout == 300
\* http.Client.Timeout of the probe, 5 * time.Second (line 215)
ProbeTimeout == 5
\* lastSpam.Add(5 * time.Second) (line 201)
SpamInterval == 5
\* time.Sleep(1 * time.Second) (line 206)
PollInterval == 1
\* time.Sleep(time.Minute) (line 264)
GraceDelay == 60
\* const maxTry = 3 (line 271)
maxTry == 3
\* The zero time.Time of "var lastSpam time.Time" (line 192): the year 1, far
\* before any clock reading; seconds relative to the entry of awaitNetwork.
ZeroTime == -1000000
\* exitCode while the process runs.
NoExit == 0 - 1

NoErr == "nil"

\* The file names under which configureSerialLogOutput is set are not part of
\* the sources at hand: any platform may or may not install the hooks.
Platforms ==
    { <<"linux", "arm">>, <<"linux", "arm64">>, <<"linux", "s390x">>,
      <<"linux", "ppc64">>, <<"linux", "ppc64le">>, <<"solaris", "amd64">>,
      <<"linux", "amd64">>, <<"windows", "amd64">>, <<"plan9", "386">> }

BuilderEnvs ==
    { "", "linux-arm-arm5spacemonkey", "host-linux-arm-scaleway",
      "host-linux-arm64-packet", "host-linux-arm64-linaro", "some-other-builder" }

\* Values of --network-wait: unset (0), positive, and negative (the flag is a
\* time.Duration, which may be negative).
NetworkWaits == { 0 - MaxNetworkWait, 0, MaxNetworkWait }

UntarFiles == { "", "go.tar.gz" }

\* What --untar-dest-dir names: nothing (the flag is empty), a path that does
\* not exist, a file that is no directory, a directory.  The flag is read in
\* untar mode only; the other runs are taken with the flag not given.
UntarDests == { "", "missing", "file", "dir" }

DownloadErrors == { "connection reset", "unexpected EOF" }

\* const osArch = runtime.GOOS + "/" + runtime.GOARCH
osArch == goos \o "/" \o goarch

inputVars == << goos, goarch, goBuilderEnv, networkWait, untarFile, untarDestDir,
               serialHooks >>
serialVars == << serialHeld, closeCount, configureCount >>
exitVars == << exitVia, exitCode, fatalMsg, fatalArg, graceSlept >>
netVars == << now, deadline, lastSpam, t0, failAfter, lastProbe, sleptAfterProbe,
              spammed, netResult >>
urlVars == << urlInputs, urlResolved, url >>
dlVars == << try, lastErr, dlErrs, dlSleeps, statErr, dlResult >>
cmdVars == << chmodDone, cmdInputs, cmdEnv, cmdArgs, argsBuilt, worker >>

(***************************************************************************)
(* The three ways the code ends the process on an error.                   *)
(***************************************************************************)
\* A call of sleepFatalf(format, arg): control moves into sleepFatalf.
CallSleepFatalf(format, arg) ==
    /\ pc' = "sleepFatalf"
    /\ fatalMsg' = format
    /\ fatalArg' = arg
    /\ UNCHANGED << exitVia, exitCode, graceSlept >>

\* log.Fatal / log.Fatalf: the message is logged and os.Exit(1) follows at once.
LogFatal(format, arg) ==
    /\ pc' = "exited"
    /\ fatalMsg' = format
    /\ fatalArg' = arg
    /\ exitVia' = "log.Fatal"
    /\ exitCode' = 1
    /\ UNCHANGED graceSlept

\* panic(...) in main, never recovered: the runtime prints it and exits with 2.
Panic(format, arg) ==
    /\ pc' = "exited"
    /\ fatalMsg' = format
    /\ fatalArg' = arg
    /\ exitVia' = "panic"
    /\ exitCode' = 2
    /\ UNCHANGED graceSlept

\* As sleepFatalf, with os.Exit(0) for os.Exit(1).
sleepFatalf_exitZero ==
    /\ pc = "sleepFatalf"
    /\ graceSlept' = IF goos = "windows" THEN GraceDelay ELSE 0
    /\ exitVia' = "sleepFatalf"
    /\ exitCode' = 0
    /\ pc' = "exited"
    /\ UNCHANGED << inputVars, serialVars, fatalMsg, fatalArg, validated, prepLog,
                    netVars, urlVars, dlVars, cmdVars, untarLog >>

\* sleepFatalf, lines 260-267: log, on windows sleep a minute, os.Exit(1).
sleepFatalf ==
    /\ pc = "sleepFatalf"
    /\ graceSlept' = IF goos = "windows" THEN GraceDelay ELSE 0
    /\ exitVia' = "sleepFatalf"
    /\ exitCode' = 1
    /\ pc' = "exited"
    /\ UNCHANGED << inputVars, serialVars, fatalMsg, fatalArg, validated, prepLog,
                    netVars, urlVars, dlVars, cmdVars, untarLog >>

(***************************************************************************)
(* Init: the process has been started, nothing of main has run.            *)
(***************************************************************************)
NoCmdInputs == [uid |-> 0, user |-> "absent", home |-> "absent", hostname |-> ""]
NoURLInputs ==
    [read |-> FALSE, onGCE |-> TRUE, inKubernetes |-> "", metaURL |-> "", attrErr |-> FALSE]

Init ==
    /\ \E p \in Platforms : goos = p[1] /\ goarch = p[2]
    /\ goBuilderEnv \in BuilderEnvs
    /\ networkWait \in NetworkWaits
    /\ untarFile \in UntarFiles
    /\ untarDestDir \in (IF untarFile = "" THEN { "" } ELSE UntarDests)
    /\ serialHooks \in BOOLEAN
    /\ pc = "main"
    /\ serialHeld = FALSE /\ closeCount = 0 /\ configureCount = 0
    /\ exitVia = "none" /\ exitCode = NoExit
    /\ fatalMsg = "" /\ fatalArg = "" /\ graceSlept = 0
    /\ validated = FALSE
    /\ prepLog = << >>
    /\ now = 0 /\ deadline = 0 /\ lastSpam = ZeroTime /\ t0 = 0 /\ failAfter = 0
    /\ lastProbe = "none" /\ sleptAfterProbe = FALSE /\ spammed = FALSE
    /\ netResult = "none"
    /\ urlInputs = NoURLInputs /\ urlResolved = FALSE /\ url = ""
    /\ try = 0 /\ lastErr = NoErr /\ dlErrs = << >> /\ dlSleeps = {}
    /\ statErr = NoErr /\ dlResult = "none"
    /\ cmdInputs = NoCmdInputs
    /\ chmodDone = FALSE /\ cmdEnv = << >> /\ cmdArgs = << >> /\ argsBuilt = FALSE
    /\ worker = "none"
    /\ untarLog = << >>

(***************************************************************************)
(* main, lines 52-65: install the serial log output, parse the flags,      *)
(* choose between untar mode and the bootstrap sequence.                   *)
(***************************************************************************)
MainStart ==
    /\ pc = "main"
    /\ IF serialHooks
         THEN /\ serialHeld' = TRUE
              /\ configureCount' = configureCount + 1
         ELSE UNCHANGED << serialHeld, configureCount >>
    /\ pc' = IF untarFile # "" THEN "untarMode" ELSE "validate"
    /\ UNCHANGED << inputVars, closeCount, exitVars, validated, prepLog, netVars,
                    urlVars, dlVars, cmdVars, untarLog >>

(***************************************************************************)
(* untarMode, lines 344-362, and the return of main at lines 62-63.        *)
(***************************************************************************)
\* Line 348: os.Stat(*untarDestDir) fails.
destStatFails(dest) == dest = "missing"

\* As destIsDir, with every path that exists taken for a directory.
destIsDir_anyFile(dest) == dest \in { "file", "dir" }

\* Line 348: fi.IsDir() of a path that exists.
destIsDir(dest) == dest = "dir"

untarMode ==
    /\ pc = "untarMode"
    /\ \E openOK \in BOOLEAN, untarOK \in BOOLEAN :
         IF untarDestDir = ""
           THEN /\ LogFatal("--untar-dest-dir must not be empty", "")
                /\ UNCHANGED untarLog
         ELSE IF destStatFails(untarDestDir)
           THEN /\ LogFatal("--untar-dest-dir %q: %v", untarDestDir)
                /\ untarLog' = << "stat" >>
         ELSE IF ~destIsDir(untarDestDir)
           THEN /\ LogFatal("--untar-dest-dir %q not a directory.", untarDestDir)
                /\ untarLog' = << "stat" >>
         ELSE IF ~openOK
           THEN /\ LogFatal("%v", "open error")
                /\ untarLog' = << "stat", "open" >>
         ELSE IF ~untarOK
           THEN /\ LogFatal("Untarring %q to %q: %v", untarFile)
                /\ untarLog' = << "stat", "open", "untar" >>
         ELSE /\ pc' = "exited"
              /\ exitVia' = "return"
              /\ exitCode' = 0
              /\ untarLog' = << "stat", "open", "untar" >>
              /\ UNCHANGED << fatalMsg, fatalArg, graceSlept >>
    /\ UNCHANGED << inputVars, serialVars, validated, prepLog, netVars, urlVars,
                    dlVars, cmdVars >>

(***************************************************************************)
(* main, lines 67-86: the switch on osArch that validates GO_BUILDER_ENV   *)
(* on linux/arm and linux/arm64 and starts the host preparation on         *)
(* linux/ppc64 and linux/ppc64le.                                          *)
(***************************************************************************)
ArmEnvs == { "linux-arm-arm5spacemonkey", "host-linux-arm-scaleway" }
Arm64Envs == { "host-linux-arm64-packet", "host-linux-arm64-linaro" }

\* As identityRejected, with the case "linux/arm64" of the switch left out.
identityRejected_noArm64Case(oa, env) ==
    oa = "linux/arm" /\ env \notin ArmEnvs

\* As identityRejected, with an unset GO_BUILDER_ENV let through.
identityRejected_emptyAccepted(oa, env) ==
    /\ env # ""
    /\ \/ oa = "linux/arm" /\ env \notin ArmEnvs
       \/ oa = "linux/arm64" /\ env \notin Arm64Envs

\* TRUE when the switch of lines 67-86 panics for this os/arch and tag.
identityRejected(oa, env) ==
    \/ oa = "linux/arm" /\ env \notin ArmEnvs
    \/ oa = "linux/arm64" /\ env \notin Arm64Envs

\* As needsHostPrep, with the case "linux/ppc64le" left out.
needsHostPrep_noPPC64le(oa) == oa = "linux/ppc64"

\* Lines 82-85: the os/arch pairs whose case runs initOregonStatePPC64(le).
needsHostPrep(oa) == oa \in { "linux/ppc64", "linux/ppc64le" }

ValidateIdentity ==
    /\ pc = "validate"
    /\ IF identityRejected(osArch, goBuilderEnv)
         THEN /\ Panic("unknown/unspecified $GO_BUILDER_ENV value %q", goBuilderEnv)
              /\ UNCHANGED validated
         ELSE /\ validated' = TRUE
              /\ pc' = IF needsHostPrep(osArch) THEN "aptGetInstall" ELSE "awaitNetwork"
              /\ UNCHANGED exitVars
    /\ UNCHANGED << inputVars, serialVars, prepLog, netVars, urlVars, dlVars,
                    cmdVars, untarLog >>

(***************************************************************************)
(* initOregonStatePPC64 / initOregonStatePPC64le, lines 326-334:           *)
(* aptGetInstall (294-300), then initBootstrapDir (302-324).               *)
(***************************************************************************)
aptGetInstall ==
    /\ pc = "aptGetInstall"
    /\ prepLog' = Append(prepLog, "apt-get")
    /\ \E ok \in BOOLEAN :
         IF ok
           THEN /\ pc' = "initBootstrapDir"
                /\ UNCHANGED exitVars
           ELSE LogFatal("error running apt-get install: %s", "apt-get output")
    /\ UNCHANGED << inputVars, serialVars, validated, netVars, urlVars, dlVars,
                    cmdVars, untarLog >>

\* The steps of initBootstrapDir in the order of the code.
BootstrapSteps == << "mkdir", "curl", "tar" >>
\* The format of the log.Fatal / log.Fatalf of each step.
BootstrapFatal ==
    << "%v", "curl error fetching %s to %s: %s", "error untarring %s to %s: %s" >>

initBootstrapDir ==
    /\ pc = "initBootstrapDir"
    /\ \E failAt \in 1..(Len(BootstrapSteps) + 1) :
         IF failAt <= Len(BootstrapSteps)
           THEN /\ prepLog' = prepLog \o SubSeq(BootstrapSteps, 1, failAt)
                /\ LogFatal(BootstrapFatal[failAt], BootstrapSteps[failAt])
           ELSE /\ prepLog' = prepLog \o BootstrapSteps
                /\ pc' = "awaitNetwork"
                /\ UNCHANGED exitVars
    /\ UNCHANGED << inputVars, serialVars, validated, netVars, urlVars, dlVars,
                    cmdVars, untarLog >>

(***************************************************************************)
(* awaitNetwork, lines 183-210.                                            *)
(***************************************************************************)
\* As Timeout, without the longer wait on windows.
Timeout_noWindowsCase ==
    IF networkWait # 0 THEN networkWait ELSE DefaultTimeout

\* Lines 184-190: the timeout in force.
Timeout ==
    IF networkWait # 0 THEN networkWait
    ELSE IF goos = "windows" THEN WindowsTimeout
    ELSE DefaultTimeout

\* Lines 184-193: entry of awaitNetwork, up to the first test of the loop.
awaitNetworkEnter ==
    /\ pc = "awaitNetwork"
    /\ now' = 0
    /\ deadline' = now' + Timeout
    /\ lastSpam' = ZeroTime
    /\ pc' = "netLoop"
    /\ UNCHANGED << inputVars, serialVars, exitVars, validated, prepLog, t0,
                    failAfter, lastProbe, sleptAfterProbe, spammed, netResult,
                    urlVars, dlVars, cmdVars, untarLog >>

\* As beforeDeadline, with the deadline itself still counted as before it.
beforeDeadline_inclusive(t, d) == t <= d

\* Line 194: the loop condition, time.Now().Before(deadline).
beforeDeadline(t, d) == t < d

\* As spamDue, with a message allowed exactly 5 seconds after the last one.
spamDue_atLeast(t, last) == t >= last + SpamInterval

\* Line 201: now.After(lastSpam.Add(5 * time.Second)).
spamDue(t, last) == t > last + SpamInterval

\* Lines 194-207: one iteration of the loop.  isNetworkUp (212-226) answers
\* up or down after d seconds, at most the client's timeout.
awaitNetworkProbe ==
    /\ pc = "netLoop"
    /\ beforeDeadline(now, deadline)
    /\ \E up \in BOOLEAN, d \in 0..ProbeTimeout :
         /\ t0' = now
         /\ failAfter' = d
         /\ IF up
              THEN /\ now' = now + d
                   /\ lastProbe' = "up"
                   /\ netResult' = "true"
                   /\ pc' = "netReturned"
                   /\ sleptAfterProbe' = FALSE
                   /\ spammed' = FALSE
                   /\ UNCHANGED lastSpam
              ELSE /\ lastProbe' = "down"
                   /\ spammed' = spamDue(now + d, lastSpam)
                   /\ lastSpam' = IF spamDue(now + d, lastSpam) THEN now + d ELSE lastSpam
                   /\ now' = now + d + PollInterval
                   /\ sleptAfterProbe' = TRUE
                   /\ pc' = "netLoop"
                   /\ UNCHANGED netResult
    /\ UNCHANGED << inputVars, serialVars, exitVars, validated, prepLog, deadline,
                    urlVars, dlVars, cmdVars, untarLog >>

\* Lines 194, 208-209: the loop condition fails, awaitNetwork gives up.
awaitNetworkGiveUp ==
    /\ pc = "netLoop"
    /\ ~beforeDeadline(now, deadline)
    /\ netResult' = "false"
    /\ pc' = "netReturned"
    /\ UNCHANGED << inputVars, serialVars, exitVars, validated, prepLog, now,
                    deadline, lastSpam, t0, failAfter, lastProbe, sleptAfterProbe,
                    spammed, urlVars, dlVars, cmdVars, untarLog >>

\* As MainAfterNetwork, with the result of awaitNetwork ignored.
MainAfterNetwork_resultIgnored ==
    /\ pc = "netReturned"
    /\ pc' = "buildletURL"
    /\ now' = 0 /\ deadline' = 0 /\ lastSpam' = ZeroTime /\ t0' = 0 /\ failAfter' = 0
    /\ lastProbe' = "none" /\ sleptAfterProbe' = FALSE /\ spammed' = FALSE
    /\ UNCHANGED << inputVars, serialVars, exitVars, validated, prepLog, netResult,
                    urlVars, dlVars, cmdVars, untarLog >>

\* As MainAfterNetwork, with awaitNetwork called again when it returned false.
MainAfterNetwork_waitsAgain ==
    /\ pc = "netReturned"
    /\ pc' = IF netResult = "false" THEN "awaitNetwork" ELSE "buildletURL"
    /\ now' = 0 /\ deadline' = 0 /\ lastSpam' = ZeroTime /\ t0' = 0 /\ failAfter' = 0
    /\ lastProbe' = "none" /\ sleptAfterProbe' = FALSE /\ spammed' = FALSE
    /\ UNCHANGED << inputVars, serialVars, exitVars, validated, prepLog, netResult,
                    urlVars, dlVars, cmdVars, untarLog >>

\* main, lines 88-90: the caller of awaitNetwork.  The locals of awaitNetwork
\* are gone once it has returned.
MainAfterNetwork ==
    /\ pc = "netReturned"
    /\ IF netResult = "false"
         THEN CallSleepFatalf("network didn't become reachable", "")
         ELSE /\ pc' = "buildletURL"
              /\ UNCHANGED exitVars
    /\ now' = 0 /\ deadline' = 0 /\ lastSpam' = ZeroTime /\ t0' = 0 /\ failAfter' = 0
    /\ lastProbe' = "none" /\ sleptAfterProbe' = FALSE /\ spammed' = FALSE
    /\ UNCHANGED << inputVars, serialVars, validated, prepLog, netResult, urlVars,
                    dlVars, cmdVars, untarLog >>

(***************************************************************************)
(* buildletURL, lines 228-258.                                             *)
(***************************************************************************)
GoBuilderData == "https://storage.googleapis.com/go-builder-data/"

\* The value of META_BUILDLET_BINARY_URL when it is set, and the value of the
\* buildlet-binary-url instance attribute when the metadata server answers.
MetaURLs == { "", "https://example.org/meta/buildlet" }
AttrURL == "https://example.org/attr/buildlet"

URLInputs ==
    [read : { TRUE }, onGCE : BOOLEAN, inKubernetes : { "", "1" }, metaURL : MetaURLs,
     attrErr : BOOLEAN]

FatalResult(format, arg) == [fatal |-> TRUE, format |-> format, arg |-> arg, url |-> ""]
URLResult(u) == [fatal |-> FALSE, format |-> "", arg |-> "", url |-> u]

\* As buildletURL, with the test of IN_KUBERNETES left out.
buildletURL_noKubernetes(env, oa, in) ==
    IF env = "linux-arm-arm5spacemonkey"
      THEN URLResult(GoBuilderData \o "buildlet.linux-arm-arm5")
    ELSE IF oa = "linux/s390x" THEN URLResult(GoBuilderData \o "buildlet.linux-s390x")
    ELSE IF oa = "linux/arm64" THEN URLResult(GoBuilderData \o "buildlet.linux-arm64")
    ELSE IF oa = "linux/ppc64" THEN URLResult(GoBuilderData \o "buildlet.linux-ppc64")
    ELSE IF oa = "linux/ppc64le" THEN URLResult(GoBuilderData \o "buildlet.linux-ppc64le")
    ELSE IF oa = "solaris/amd64" THEN URLResult(GoBuilderData \o "buildlet.solaris-amd64")
    ELSE IF ~in.onGCE /\ in.metaURL # "" THEN URLResult(in.metaURL)
    ELSE IF ~in.onGCE
      THEN FatalResult("Not on GCE, and no META_BUILDLET_BINARY_URL specified.", "")
    ELSE IF in.attrErr
      THEN FatalResult("Failed to look up %q attribute value: %v", "buildlet-binary-url")
    ELSE URLResult(AttrURL)

\* buildletURL as a function of what it reads: GO_BUILDER_ENV, osArch, and in
\* (what metadata.OnGCE, IN_KUBERNETES, META_BUILDLET_BINARY_URL and
\* metadata.InstanceAttributeValue give).
buildletURL(env, oa, in) ==
    IF env = "linux-arm-arm5spacemonkey"
      THEN URLResult(GoBuilderData \o "buildlet.linux-arm-arm5")
    ELSE IF oa = "linux/s390x" THEN URLResult(GoBuilderData \o "buildlet.linux-s390x")
    ELSE IF oa = "linux/arm64" THEN URLResult(GoBuilderData \o "buildlet.linux-arm64")
    ELSE IF oa = "linux/ppc64" THEN URLResult(GoBuilderData \o "buildlet.linux-ppc64")
    ELSE IF oa = "linux/ppc64le" THEN URLResult(GoBuilderData \o "buildlet.linux-ppc64le")
    ELSE IF oa = "solaris/amd64" THEN URLResult(GoBuilderData \o "buildlet.solaris-amd64")
    ELSE IF (~in.onGCE \/ in.inKubernetes = "1") /\ in.metaURL # ""
      THEN URLResult(in.metaURL)
    ELSE IF ~in.onGCE \/ in.inKubernetes = "1"
      THEN FatalResult("Not on GCE, and no META_BUILDLET_BINARY_URL specified.", "")
    ELSE IF in.attrErr
      THEN FatalResult("Failed to look up %q attribute value: %v", "buildlet-binary-url")
    ELSE URLResult(AttrURL)

\* main, line 95: the call buildletURL() that is evaluated before download runs.
CallBuildletURL ==
    /\ pc = "buildletURL"
    /\ \E in \in URLInputs :
         /\ urlInputs' = in
         /\ LET r == buildletURL(goBuilderEnv, osArch, in) IN
              IF r.fatal
                THEN /\ CallSleepFatalf(r.format, r.arg)
                     /\ UNCHANGED << urlResolved, url, try >>
                ELSE /\ urlResolved' = TRUE
                     /\ url' = r.url
                     /\ try' = 1
                     /\ pc' = "download"
                     /\ UNCHANGED exitVars
    /\ UNCHANGED << inputVars, serialVars, validated, prepLog, netVars, lastErr,
                    dlErrs, dlSleeps, statErr, dlResult, cmdVars, untarLog >>

(***************************************************************************)
(* download, lines 269-292.                                                *)
(***************************************************************************)
StatError == "stat: no such file or directory"

\* As moreTries, with the bound off by one.
moreTries_offByOne(t) == t < maxTry

\* Line 273: the loop condition, try <= maxTry.
moreTries(t) == t <= maxTry

\* Line 274: the test that guards time.Sleep(2).
sleepsBefore(t) == t > 1

\* As resultAfterStat, with the error of os.Stat dropped.
resultAfterStat_errorDropped(st) == NoErr

\* Lines 281-286: what download returns after a transfer that succeeded, st
\* being the error of os.Stat.
resultAfterStat(st) == st

\* Lines 273-290: one iteration of the loop, for the current value of try.
\* res is what httpdl.Download returns, st what os.Stat returns when called.
downloadTry ==
    /\ pc = "download"
    /\ moreTries(try)
    /\ dlSleeps' = IF sleepsBefore(try) THEN dlSleeps \cup { try } ELSE dlSleeps
    /\ \E res \in { NoErr } \cup DownloadErrors, st \in { NoErr, StatError } :
         /\ dlErrs' = Append(dlErrs, res)
         /\ IF res = NoErr
              THEN /\ statErr' = st
                   /\ dlResult' = resultAfterStat(st)
                   /\ pc' = "downloadReturned"
                   /\ UNCHANGED << try, lastErr >>
              ELSE /\ lastErr' = res
                   /\ try' = try + 1
                   /\ IF moreTries(try + 1)
                        THEN /\ pc' = "download"
                             /\ UNCHANGED dlResult
                        ELSE /\ pc' = "downloadReturned"
                             /\ dlResult' = res
                   /\ UNCHANGED statErr
    /\ UNCHANGED << inputVars, serialVars, exitVars, validated, prepLog, netVars,
                    urlVars, cmdVars, untarLog >>

\* What the verb %s prints for the argument of line 96, which is the function
\* buildletURL itself and not a URL.
FuncValue == "%!s(func() string=0x...)"

\* main, lines 95-103: the caller of download, then os.Chmod off windows.
\* The locals of download, and what the call of buildletURL read, are gone
\* once download has returned; its result and the URL stay.
MainAfterDownload ==
    /\ pc = "downloadReturned"
    /\ IF dlResult # NoErr
         THEN /\ CallSleepFatalf("Downloading %s: %v", FuncValue)
              /\ UNCHANGED chmodDone
         ELSE IF goos # "windows"
           THEN \E ok \in BOOLEAN :
                  IF ok
                    THEN /\ chmodDone' = TRUE
                         /\ pc' = "buildCmd"
                         /\ UNCHANGED exitVars
                    ELSE /\ LogFatal("%v", "chmod error")
                         /\ UNCHANGED chmodDone
           ELSE /\ pc' = "buildCmd"
                /\ UNCHANGED << exitVars, chmodDone >>
    /\ try' = 0 /\ lastErr' = NoErr /\ dlErrs' = << >> /\ dlSleeps' = {}
    /\ statErr' = NoErr /\ urlInputs' = NoURLInputs
    /\ UNCHANGED << inputVars, serialVars, validated, prepLog, netVars, urlResolved,
                    url, dlResult, cmdInputs, cmdEnv, cmdArgs, argsBuilt, worker,
                    untarLog >>

(***************************************************************************)
(* main, lines 105-156: the environment and the arguments of the worker.   *)
(***************************************************************************)
\* isUnix, lines 336-342.
isUnix(os) == os \notin { "plan9", "windows" }

\* An entry NAME=value of an environment.
EnvEntry(name, value) == [name |-> name, value |-> value]

\* A variable of the parent environment is "absent", "empty" (NAME=) or "set".
VarStates == { "absent", "empty", "set" }

CmdInputs ==
    [uid : { 0, 1000 }, user : VarStates, home : VarStates,
     hostname : { "", "builder-host" }]

\* os.Environ() of a process with these inputs.
Environ(in) ==
    << EnvEntry("PATH", "/usr/bin") >>
    \o (IF in.user = "absent" THEN << >>
        ELSE << EnvEntry("USER", IF in.user = "empty" THEN "" ELSE "gopher") >>)
    \o (IF in.home = "absent" THEN << >>
        ELSE << EnvEntry("HOME", IF in.home = "empty" THEN "" ELSE "/home/gopher") >>)

\* os.Getenv(name) over an environment: "" when absent.
Getenv(environ, name) ==
    IF \E i \in 1..Len(environ) : environ[i].name = name
      THEN environ[CHOOSE i \in 1..Len(environ) : environ[i].name = name].value
      ELSE ""

\* Lines 105-113.
workerEnv(os, uid, environ) ==
    IF isUnix(os) /\ uid = 0
      THEN environ
           \o (IF Getenv(environ, "USER") = "" THEN << EnvEntry("USER", "root") >> ELSE << >>)
           \o (IF Getenv(environ, "HOME") = "" THEN << EnvEntry("HOME", "/root") >> ELSE << >>)
      ELSE environ

\* An argument flag=value of the worker; the program name is an argument with
\* no value.
Arg(flag, value) == [flag |-> flag, value |-> value]

\* filepath.FromSlash("./buildlet.exe"), line 94.
target(os) == IF os = "windows" THEN ".\\buildlet.exe" ELSE "./buildlet.exe"

Coordinator == "farmer.golang.org:443"

\* As legacyReverseBuildletArgs, without the coordinator address.
legacyReverseBuildletArgs_noCoordinator(builder) ==
    << Arg("--halt", "false"), Arg("--reverse", builder) >>

\* legacyReverseBuildletArgs, lines 173-179.
legacyReverseBuildletArgs(builder) ==
    << Arg("--halt", "false"), Arg("--reverse", builder), Arg("--coordinator", Coordinator) >>

\* Lines 119-130: the arguments keyed on GO_BUILDER_ENV.
envArgs(env, hostname) ==
    IF env = "linux-arm-arm5spacemonkey" THEN legacyReverseBuildletArgs(env)
    ELSE IF env = "host-linux-arm-scaleway"
      THEN legacyReverseBuildletArgs(env) \o << Arg("--hostname", hostname) >>
    ELSE << >>

\* Lines 131-156: the arguments keyed on osArch; on linux/arm64 with a tag
\* outside the two allowed ones the code panics (line 148).
osArchPanics(oa, env) == oa = "linux/arm64" /\ env \notin Arm64Envs

\* As osArchArgs, with the work directory of linux/s390x appended after the
\* reverse arguments instead of before them.
osArchArgs_workdirLast(oa, env, hostname) ==
    IF oa = "linux/s390x"
      THEN legacyReverseBuildletArgs("linux-s390x-ibm")
           \o << Arg("--workdir", "/data/golang/workdir") >>
    ELSE IF oa = "linux/arm64" /\ env \in Arm64Envs
      THEN << Arg("--reverse-type", env), Arg("--workdir", "/workdir"),
              Arg("--hostname", hostname), Arg("--halt", "false"),
              Arg("--reboot", "false"), Arg("--coordinator", Coordinator) >>
    ELSE IF oa = "linux/ppc64" THEN legacyReverseBuildletArgs("linux-ppc64-buildlet")
    ELSE IF oa = "linux/ppc64le" THEN legacyReverseBuildletArgs("linux-ppc64le-buildlet")
    ELSE IF oa = "solaris/amd64"
      THEN legacyReverseBuildletArgs("solaris-amd64-smartosbuildlet")
    ELSE << >>

osArchArgs(oa, env, hostname) ==
    IF oa = "linux/s390x"
      THEN << Arg("--workdir", "/data/golang/workdir") >>
           \o legacyReverseBuildletArgs("linux-s390x-ibm")
    ELSE IF oa = "linux/arm64" /\ env \in Arm64Envs
      THEN << Arg("--reverse-type", env), Arg("--workdir", "/workdir"),
              Arg("--hostname", hostname), Arg("--halt", "false"),
              Arg("--reboot", "false"), Arg("--coordinator", Coordinator) >>
    ELSE IF oa = "linux/ppc64" THEN legacyReverseBuildletArgs("linux-ppc64-buildlet")
    ELSE IF oa = "linux/ppc64le" THEN legacyReverseBuildletArgs("linux-ppc64le-buildlet")
    ELSE IF oa = "solaris/amd64"
      THEN legacyReverseBuildletArgs("solaris-amd64-smartosbuildlet")
    ELSE << >>

\* cmd.Args as lines 115-156 leave it: exec.Command sets the program name.
workerArgs(os, oa, env, hostname) ==
    << Arg(target(os), "") >> \o envArgs(env, hostname) \o osArchArgs(oa, env, hostname)

BuildCmd ==
    /\ pc = "buildCmd"
    /\ \E in \in CmdInputs :
         /\ cmdInputs' = in
         /\ cmdEnv' = workerEnv(goos, in.uid, Environ(in))
         /\ IF osArchPanics(osArch, goBuilderEnv)
              THEN /\ Panic("unknown/unspecified $GO_BUILDER_ENV value %q", "env")
                   /\ UNCHANGED << cmdArgs, argsBuilt >>
              ELSE /\ cmdArgs' = workerArgs(goos, osArch, goBuilderEnv, in.hostname)
                   /\ argsBuilt' = TRUE
                   /\ pc' = "launch"
                   /\ UNCHANGED exitVars
    /\ UNCHANGED << inputVars, serialVars, validated, prepLog, netVars, urlVars,
                    dlVars, chmodDone, worker, untarLog >>

(***************************************************************************)
(* main, lines 157-169: release the serial port, run the worker, wait.     *)
(***************************************************************************)
\* As RunFailed, without the call of configureSerialLogOutput.
RunFailed_noReacquire ==
    /\ UNCHANGED << serialHeld, configureCount >>
    /\ CallSleepFatalf("Error running buildlet: %v", "run error")

\* Lines 164-167: the error branch of cmd.Run.
RunFailed ==
    /\ IF serialHooks
         THEN /\ serialHeld' = TRUE
              /\ configureCount' = configureCount + 1
         ELSE UNCHANGED << serialHeld, configureCount >>
    /\ CallSleepFatalf("Error running buildlet: %v", "run error")

\* Lines 160-163: closeSerialLogOutput, then cmd.Run starts the worker or
\* fails to.
Launch ==
    /\ pc = "launch"
    /\ \E started \in BOOLEAN :
         IF started
           THEN /\ worker' = "running"
                /\ pc' = "running"
                /\ closeCount' = IF serialHooks THEN closeCount + 1 ELSE closeCount
                /\ serialHeld' = IF serialHooks THEN FALSE ELSE serialHeld
                /\ UNCHANGED << configureCount, exitVars >>
           ELSE /\ closeCount' = IF serialHooks THEN closeCount + 1 ELSE closeCount
                /\ RunFailed
                /\ UNCHANGED worker
    /\ UNCHANGED << inputVars, validated, prepLog, netVars, urlVars, dlVars,
                    chmodDone, cmdInputs, cmdEnv, cmdArgs, argsBuilt, untarLog >>

\* Lines 163-169: cmd.Run returns when the worker has exited.
WorkerExit ==
    /\ pc = "running"
    /\ worker' = "exited"
    /\ \E code \in { 0, 1 } :
         IF code = 0
           THEN /\ pc' = "exited"
                /\ exitVia' = "return"
                /\ exitCode' = 0
                /\ UNCHANGED << serialVars, fatalMsg, fatalArg, graceSlept >>
           ELSE /\ RunFailed
                /\ UNCHANGED closeCount
    /\ UNCHANGED << inputVars, validated, prepLog, netVars, urlVars, dlVars,
                    chmodDone, cmdInputs, cmdEnv, cmdArgs, argsBuilt, untarLog >>

Next ==
    \/ MainStart
    \/ untarMode
    \/ ValidateIdentity
    \/ aptGetInstall
    \/ initBootstrapDir
    \/ awaitNetworkEnter
    \/ awaitNetworkProbe
    \/ awaitNetworkGiveUp
    \/ MainAfterNetwork
    \/ CallBuildletURL
    \/ downloadTry
    \/ MainAfterDownload
    \/ BuildCmd
    \/ Launch
    \/ WorkerExit
    \/ sleepFatalf

Spec == Init /\ [][Next]_vars

\* The steps that stage0 takes by itself, or that end when a probe (the client
\* of line 215 has a timeout) or a transfer attempt returns.  Left out are the
\* waits for another process with no timeout: apt-get (295-297), curl and tar
\* (313-321), and the worker (163).
StageSteps ==
    \/ MainStart
    \/ untarMode
    \/ ValidateIdentity
    \/ awaitNetworkEnter
    \/ awaitNetworkProbe
    \/ awaitNetworkGiveUp
    \/ MainAfterNetwork
    \/ CallBuildletURL
    \/ downloadTry
    \/ MainAfterDownload
    \/ BuildCmd
    \/ Launch
    \/ sleepFatalf

\* main is the only goroutine: whenever one of its steps can be taken, it is.
LiveSpec == Init /\ [][Next]_vars /\ WF_vars(StageSteps)

(***************************************************************************)
(* Properties.                                                             *)
(***************************************************************************)
Failed == pc = "exited" /\ exitCode # 0

\* The tags lines 69-81 name for the two os/arch pairs they validate.
BadTag ==
    \/ osArch = "linux/arm"
       /\ goBuilderEnv \notin { "linux-arm-arm5spacemonkey", "host-linux-arm-scaleway" }
    \/ osArch = "linux/arm64"
       /\ goBuilderEnv \notin { "host-linux-arm64-packet", "host-linux-arm64-linaro" }

\* C1: every run that ends in a failure ended through sleepFatalf; no
\* component ends the process by another exit path.
C1_SoleExitPath == Failed => exitVia = "sleepFatalf"

\* The identities some rule of the code names: an os/arch pair of one of the
\* switches (with an allowed tag where the tag is validated) or a tag of the
\* switch of lines 119-130.
NamedIdentity ==
    /\ ~BadTag
    /\ \/ osArch \in { "linux/arm", "linux/arm64", "linux/s390x", "linux/ppc64",
                       "linux/ppc64le", "solaris/amd64" }
       \/ goBuilderEnv \in { "linux-arm-arm5spacemonkey", "host-linux-arm-scaleway" }

C3_BadTagAbortsFirst ==
    BadTag =>
      /\ pc \in { "main", "untarMode", "validate", "exited" }
      /\ netResult = "none" /\ lastProbe = "none"
      /\ try = 0 /\ dlErrs = << >> /\ dlResult = "none"
      /\ worker = "none" /\ closeCount = 0
      /\ (untarFile = "" /\ pc = "exited") => exitCode # 0

C3_Witness ==
    /\ osArch = "linux/arm" /\ goBuilderEnv = ""
    /\ pc = "exited" /\ exitCode # 0 /\ untarFile = ""

IsReverseFlag(a) == a.flag \in { "--reverse", "--reverse-type" }
HasReverseFlag(args) == \E i \in 1..Len(args) : IsReverseFlag(args[i])
HasCoordinator(args) == \E i \in 1..Len(args) : args[i].flag = "--coordinator"

\* C4: an argument vector that reaches the launch and holds a --reverse or
\* --reverse-type argument also holds a --coordinator argument.
C4_ReverseHasCoordinator ==
    (argsBuilt /\ HasReverseFlag(cmdArgs)) =>
        /\ HasCoordinator(cmdArgs)
        /\ \A i \in 1..Len(cmdArgs) :
             cmdArgs[i].flag = "--coordinator" => cmdArgs[i].value # ""

C4_Witness ==
    /\ pc = "running"
    /\ \E i \in 1..Len(cmdArgs) : cmdArgs[i].flag = "--reverse"
    /\ HasCoordinator(cmdArgs)

Last(seq) == seq[Len(seq)]

\* The transfer attempts made so far, the sleeps before them, and where the
\* loop stands: at most maxTry attempts, none after a successful one, a sleep
\* before every attempt but the first.
DownloadLoopShape ==
    /\ Len(dlErrs) <= 3
    /\ \A i \in 1..(Len(dlErrs) - 1) : dlErrs[i] # NoErr
    /\ 1 \notin dlSleeps
    /\ \A k \in 2..Len(dlErrs) : k \in dlSleeps
    /\ \A k \in dlSleeps : k <= Len(dlErrs) + 1

\* C5 as stated: at most 3 attempts, stop at the first success, a sleep before
\* the 2nd and 3rd attempt only; success reported whenever an attempt
\* succeeded, else the error of the 3rd attempt.
C5_SuccessWheneverTransferred ==
    /\ pc \in { "download", "downloadReturned" } => DownloadLoopShape
    /\ pc = "downloadReturned" =>
         IF Last(dlErrs) = NoErr
           THEN dlResult = NoErr
           ELSE Len(dlErrs) = 3 /\ dlResult = dlErrs[3]

\* C5 as amended: as stated, but an attempt that succeeds makes download
\* report success only when os.Stat of the destination file succeeds too;
\* when it fails download returns the error of os.Stat.
C5_SuccessWhenTransferredAndStated ==
    /\ pc \in { "download", "downloadReturned" } => DownloadLoopShape
    /\ pc = "download" => try = Len(dlErrs) + 1 /\ dlResult = "none"
    /\ pc = "downloadReturned" =>
         IF Last(dlErrs) = NoErr
           THEN dlResult = statErr /\ (statErr = NoErr \/ statErr = StatError)
           ELSE /\ Len(dlErrs) = 3 /\ dlResult = dlErrs[3]
                /\ dlResult \in DownloadErrors /\ statErr = NoErr

\* Two failures with different errors, then success.
C5_Witness ==
    /\ pc = "downloadReturned"
    /\ Len(dlErrs) = 3 /\ dlErrs[1] # dlErrs[2] /\ dlErrs[3] = NoErr
    /\ dlResult = NoErr /\ dlSleeps = { 2, 3 }

\* C6: awaitNetwork returns true exactly when its latest probe succeeded, and
\* then at the moment that probe ended, without the sleep; every probe was
\* started before the deadline; it returns false only with the deadline
\* reached and no probe having succeeded.
C6_TrueIffProbeSucceeded ==
    /\ pc \in { "netLoop", "netReturned" } =>
         /\ lastProbe # "none" => t0 < deadline /\ failAfter <= ProbeTimeout
         /\ (lastProbe = "up") <=> (netResult = "true")
         /\ pc = "netLoop" => netResult = "none" /\ lastProbe # "up"
    /\ pc = "netReturned" =>
         /\ netResult \in { "true", "false" }
         /\ netResult = "true" =>
              lastProbe = "up" /\ ~sleptAfterProbe /\ now = t0 + failAfter
         /\ netResult = "false" =>
              /\ lastProbe # "up" /\ now >= deadline
              /\ lastProbe = "down" => sleptAfterProbe

\* A probe succeeds after earlier probes failed.
C6_Witness ==
    /\ pc = "netReturned" /\ netResult = "true"
    /\ t0 > 0 /\ failAfter > 0 /\ lastSpam # ZeroTime

\* The deadline lines 184-191 configure, awaitNetwork being entered at 0.
ConfiguredDeadline ==
    IF networkWait # 0 THEN networkWait
    ELSE IF goos = "windows" THEN 300
    ELSE 30

\* C7 as stated: with no probe succeeding awaitNetwork returns false, not
\* before the configured deadline and not later than one probe and one sleep
\* after it.
C7_FalseWithinOneProbeOfDeadline ==
    /\ pc \in { "netLoop", "netReturned" } => deadline = ConfiguredDeadline
    /\ (pc = "netReturned" /\ lastProbe # "up") =>
         /\ netResult = "false"
         /\ now >= deadline
         /\ now <= deadline + failAfter + PollInterval

\* C7 as amended: as stated when the deadline lies after the entry of
\* awaitNetwork; when it does not (a negative --network-wait) awaitNetwork
\* returns false at once, on entry, without any probe.
C7_FalseAtDeadlineOrOnEntry ==
    /\ pc \in { "netLoop", "netReturned" } => deadline = ConfiguredDeadline
    /\ (pc = "netLoop" /\ now >= deadline) => ~ENABLED awaitNetworkProbe
    /\ (pc = "netReturned" /\ lastProbe # "up") =>
         /\ netResult = "false"
         /\ now >= deadline
         /\ IF deadline > 0
              THEN /\ lastProbe = "down"
                   /\ now = t0 + failAfter + PollInterval
                   /\ now <= deadline + failAfter + PollInterval
              ELSE lastProbe = "none" /\ now = 0

\* On windows, unconfigured, the give-up comes after the 300 seconds.
C7_Witness ==
    /\ pc = "netReturned" /\ netResult = "false" /\ lastProbe = "down"
    /\ goos = "windows" /\ networkWait = 0 /\ now > 300

\* The positions of main from which a transfer has been or is being attempted.
InDownload == pc \in { "download", "downloadReturned" }
AfterDownload == pc \in { "buildCmd", "launch", "running" }

\* C8: the stages run in the order validation, network gate, download,
\* chmod, launch: no probe before the identity was accepted, no URL lookup
\* and no transfer unless awaitNetwork returned true, no worker unless the
\* download returned nil and, off windows, the chmod succeeded.
C8_StageOrder ==
    /\ (pc \in { "awaitNetwork", "netLoop", "netReturned" } \/ netResult # "none")
          => validated
    /\ (pc = "buildletURL" \/ urlInputs.read \/ urlResolved \/ InDownload
          \/ dlErrs # << >> \/ dlResult # "none")
          => validated /\ netResult = "true"
    /\ (AfterDownload \/ chmodDone \/ argsBuilt \/ worker # "none" \/ closeCount > 0)
          => /\ validated /\ netResult = "true"
             /\ urlResolved /\ dlResult = NoErr
             /\ goos # "windows" => chmodDone
    /\ ~validated => prepLog = << >>

C8_Witness ==
    /\ worker = "running" /\ goos = "linux" /\ chmodDone
    /\ netResult = "true" /\ dlResult = NoErr /\ validated

RunErrorMsg == "Error running buildlet: %v"

\* C9: with the hooks installed the host releases the serial port once, in
\* the step that starts the worker, and does not hold it while the worker
\* runs; it takes the port again exactly when the run of the worker ended
\* with an error, and holds it when sleepFatalf logs that error.
C9_SerialHandoff ==
    serialHooks =>
      /\ closeCount <= 1
      /\ closeCount = 0 <=> pc \in { "main", "untarMode", "validate", "aptGetInstall",
                                     "initBootstrapDir", "awaitNetwork", "netLoop",
                                     "netReturned", "buildletURL", "download",
                                     "downloadReturned", "buildCmd", "launch" }
                            \/ (pc \in { "sleepFatalf", "exited" } /\ worker = "none"
                                /\ fatalMsg # RunErrorMsg)
      /\ (closeCount = 0 /\ pc # "main") => serialHeld
      /\ worker = "running" => ~serialHeld /\ closeCount = 1
      /\ configureCount = (IF pc = "main" THEN 0
                           ELSE IF fatalMsg = RunErrorMsg THEN 2 ELSE 1)
      /\ fatalMsg = RunErrorMsg => serialHeld /\ closeCount = 1
      /\ (worker = "exited" /\ exitCode = 0) => ~serialHeld

\* The worker ran and exited with an error; sleepFatalf is about to log it.
C9_Witness ==
    /\ serialHooks /\ pc = "sleepFatalf" /\ fatalMsg = RunErrorMsg
    /\ worker = "exited" /\ serialHeld /\ closeCount = 1 /\ configureCount = 2

NoMetaMsg == "Not on GCE, and no META_BUILDLET_BINARY_URL specified."

\* What C10 says of a host that is off GCE or in Kubernetes, once buildletURL
\* has been called: the URL is META_BUILDLET_BINARY_URL; without it the run
\* ends through sleepFatalf and no transfer is attempted.
MetaURLDecides ==
    IF urlInputs.metaURL # ""
      THEN urlResolved /\ url = urlInputs.metaURL
      ELSE /\ ~urlResolved /\ pc \in { "sleepFatalf", "exited" }
           /\ fatalMsg = NoMetaMsg
           /\ try = 0 /\ dlErrs = << >> /\ dlResult = "none"

OffGCEOrInKubernetes ==
    urlInputs.read /\ (~urlInputs.onGCE \/ urlInputs.inKubernetes = "1")

FixedURLIdentity ==
    \/ goBuilderEnv = "linux-arm-arm5spacemonkey"
    \/ osArch \in { "linux/s390x", "linux/arm64", "linux/ppc64", "linux/ppc64le",
                    "solaris/amd64" }

UntarSteps == << "stat", "open", "untar" >>

\* C11: the exit status is zero only after a successful extraction in untar
\* mode or after the worker exited cleanly; every run that ended on a
\* configuration, network, download or launch failure ended with a non-zero
\* status.
C11_ZeroOnlyOnSuccess ==
    /\ pc # "exited" => exitCode = NoExit
    /\ pc = "exited" =>
         /\ exitCode \in { 0, 1, 2 }
         /\ exitCode = 0 <=> fatalMsg = ""
         /\ exitCode = 0 =>
              /\ exitVia = "return"
              /\ \/ untarFile # "" /\ untarDestDir = "dir" /\ untarLog = UntarSteps
                 \/ untarFile = "" /\ worker = "exited" /\ dlResult = NoErr
                    /\ netResult = "true"
         /\ (untarFile = "" /\ BadTag) => exitCode # 0
         /\ netResult = "false" => exitCode # 0
         /\ (untarFile = "" /\ netResult = "true" /\ ~urlResolved) => exitCode # 0
         /\ dlResult \notin { "none", NoErr } => exitCode # 0
         /\ (dlResult = NoErr /\ goos # "windows" /\ ~chmodDone) => exitCode # 0
         /\ (argsBuilt /\ worker = "none") => exitCode # 0
         /\ (untarFile # "" /\ untarLog # UntarSteps) => exitCode # 0

\* The worker ran and exited cleanly.
C11_Witness ==
    pc = "exited" /\ exitCode = 0 /\ worker = "exited" /\ untarFile = ""

\* C12: with --untar-file given the run does untar mode only: no validation,
\* host preparation, probe, URL lookup, download or launch; and unless
\* --untar-dest-dir names a directory the run fails with the archive never
\* opened and nothing extracted.
C12_UntarModeOnly ==
    /\ untarFile = "" => untarLog = << >>
    /\ untarFile # "" =>
         /\ pc \in { "main", "untarMode", "exited" }
         /\ ~validated /\ prepLog = << >>
         /\ netResult = "none" /\ lastProbe = "none"
         /\ ~urlInputs.read /\ ~urlResolved
         /\ try = 0 /\ dlErrs = << >> /\ dlResult = "none"
         /\ ~chmodDone /\ ~argsBuilt /\ cmdArgs = << >> /\ worker = "none"
         /\ untarDestDir # "dir" =>
              /\ untarLog \in { << >>, << "stat" >> }
              /\ pc = "exited" => exitCode # 0
         /\ untarDestDir = "" => untarLog = << >>

\* The destination exists and is no directory.
C12_Witness ==
    /\ untarFile # "" /\ untarDestDir = "file"
    /\ pc = "exited" /\ exitCode = 1 /\ untarLog = << "stat" >>

\* C13: on linux/s390x without GO_BUILDER_ENV the URL is the one of
\* buildlet.linux-s390x and the arguments after the program name are, in this
\* order, --workdir=/data/golang/workdir, --halt=false,
\* --reverse=linux-s390x-ibm, --coordinator=farmer.golang.org:443.
C13_S390xPlan ==
    (osArch = "linux/s390x" /\ goBuilderEnv = "") =>
      /\ (InDownload \/ AfterDownload) => urlResolved
      /\ urlResolved =>
           url = "https://storage.googleapis.com/go-builder-data/buildlet.linux-s390x"
      /\ argsBuilt =>
           /\ Len(cmdArgs) = 5
           /\ cmdArgs[1] = [flag |-> "./buildlet.exe", value |-> ""]
           /\ Tail(cmdArgs) =
                << [flag |-> "--workdir", value |-> "/data/golang/workdir"],
                   [flag |-> "--halt", value |-> "false"],
                   [flag |-> "--reverse", value |-> "linux-s390x-ibm"],
                   [flag |-> "--coordinator", value |-> "farmer.golang.org:443"] >>

C13_Witness ==
    /\ osArch = "linux/s390x" /\ goBuilderEnv = ""
    /\ pc = "launch" /\ argsBuilt /\ urlResolved /\ Len(cmdArgs) = 5

\* The entries of an environment that carry this name.
EntriesOf(environ, name) == { i \in 1..Len(environ) : environ[i].name = name }

\* C14: cmd.Env starts with the parent environment, unchanged and in order;
\* what follows is at most USER=root and HOME=/root, each only on a unix host
\* with uid 0 and the variable absent from the parent environment; no name
\* has two entries.
C14_EnvOverlay ==
    argsBuilt =>
      LET parent == Environ(cmdInputs)
          added == SubSeq(cmdEnv, Len(parent) + 1, Len(cmdEnv))
          root == goos \notin { "plan9", "windows" } /\ cmdInputs.uid = 0
      IN  /\ Len(cmdEnv) >= Len(parent)
          /\ SubSeq(cmdEnv, 1, Len(parent)) = parent
          /\ \A i \in 1..Len(added) :
               \/ /\ added[i] = [name |-> "USER", value |-> "root"]
                  /\ root /\ cmdInputs.user = "absent"
               \/ /\ added[i] = [name |-> "HOME", value |-> "/root"]
                  /\ root /\ cmdInputs.home = "absent"
          /\ \A i \in 1..Len(cmdEnv) :
               Cardinality(EntriesOf(cmdEnv, cmdEnv[i].name)) = 1

\* C15: in every iteration of awaitNetwork whose probe fails, the first one
\* logs "network still down", and a message is logged only more than 5
\* seconds after the message before it; an iteration that logs nothing leaves
\* lastSpam as it was, at most 5 seconds back.
C15_SpamRateLimited ==
    [][ (pc = "netLoop" /\ pc' = "netLoop") =>
          LET probeEnd == t0' + failAfter' IN
            /\ lastProbe' = "down"
            /\ lastProbe = "none" => spammed'
            /\ spammed' =>
                 /\ lastSpam' = probeEnd
                 /\ lastSpam # ZeroTime => probeEnd - lastSpam > 5
            /\ ~spammed' =>
                 /\ lastSpam' = lastSpam /\ lastSpam # ZeroTime
                 /\ probeEnd - lastSpam <= 5
      ]_vars

\* A message that is not the first one of the call: the first probe ends, and
\* logs, within the probe's timeout.
C15_Witness ==
    pc = "netLoop" /\ lastProbe = "down" /\ spammed /\ lastSpam > ProbeTimeout

PrepSteps == << "apt-get", "mkdir", "curl", "tar" >>

IsPrefix(a, b) == Len(a) <= Len(b) /\ SubSeq(b, 1, Len(a)) = a

\* C16: on linux/ppc64 and linux/ppc64le the host preparation (apt-get
\* install, then the bootstrap directory, the conditional curl and the tar,
\* in this order) is complete before awaitNetwork is entered, and so before
\* any download; a step that fails ends the process with a failure, with no
\* later step, no probe, no download and no launch.
C16_HostPrepFirst ==
    /\ IsPrefix(prepLog, PrepSteps)
    /\ osArch \notin { "linux/ppc64", "linux/ppc64le" } => prepLog = << >>
    /\ (osArch \in { "linux/ppc64", "linux/ppc64le" } /\ untarFile = "") =>
         /\ pc \in { "main", "validate" } => prepLog = << >>
         /\ pc = "aptGetInstall" => prepLog = << >>
         /\ pc = "initBootstrapDir" => prepLog = << "apt-get" >>
         /\ pc \notin { "main", "validate", "aptGetInstall", "initBootstrapDir",
                        "exited" } => prepLog = PrepSteps
         /\ prepLog # PrepSteps =>
              /\ netResult = "none" /\ lastProbe = "none"
              /\ ~urlResolved /\ try = 0 /\ dlErrs = << >> /\ dlResult = "none"
              /\ worker = "none" /\ ~argsBuilt
              /\ pc = "exited" => exitCode # 0 /\ prepLog # << >>

\* The curl step failed: tar never ran, nor anything after it.
C16_Witness ==
    /\ osArch = "linux/ppc64le" /\ pc = "exited"
    /\ prepLog = << "apt-get", "mkdir", "curl" >> /\ exitCode = 1
    /\ netResult = "none"

\* C17: download returns nil only after a transfer succeeded and os.Stat
\* found the destination file; when os.Stat fails after a successful
\* transfer download returns that error at once: the loop is never
\* continued, whatever the number of attempts made.
C17_StatDecidesSuccess ==
    /\ pc = "download" => statErr = NoErr /\ \A i \in 1..Len(dlErrs) : dlErrs[i] # NoErr
    /\ pc = "downloadReturned" =>
         /\ dlResult = NoErr => Last(dlErrs) = NoErr /\ statErr = NoErr
         /\ statErr # NoErr =>
              /\ dlResult = statErr /\ dlResult \notin DownloadErrors
              /\ Last(dlErrs) = NoErr
              /\ try = Len(dlErrs)
         /\ Last(dlErrs) # NoErr => statErr = NoErr

\* The first transfer succeeds and os.Stat fails: two attempts stay unused.
C17_Witness ==
    /\ pc = "downloadReturned" /\ Len(dlErrs) = 1 /\ dlErrs[1] = NoErr
    /\ statErr = StatError /\ dlResult = StatError /\ try = 1

\* C18: the message main hands to sleepFatalf when download failed holds the
\* URL that was being downloaded, the value buildletURL returned.
C18_FatalMessageHasURL ==
    fatalMsg = "Downloading %s: %v" =>
        /\ urlResolved /\ dlResult \notin { "none", NoErr }
        /\ fatalArg = url

\* The run has started the worker, or has ended with a failure.
StartedOrFailed == worker # "none" \/ (pc = "exited" /\ exitCode \in { 1, 2 })

\* The run is waiting for apt-get, curl or tar.
InHostPrep == pc \in { "aptGetInstall", "initBootstrapDir" }

\* C19 as stated: every run of the bootstrap sequence eventually starts the
\* worker or exits with a failure, the wait for the worker being the only
\* wait without a bound.
C19_StartsOrFails == (untarFile = "") => <>StartedOrFailed

\* C19: every run of the bootstrap sequence eventually starts the worker,
\* exits with a failure, or stays for ever in the host preparation of
\* linux/ppc64 and linux/ppc64le, waiting for a command that has no timeout.
C19_StartsOrFailsOrStuckInPrep ==
    (untarFile = "") =>
        <>[](\/ StartedOrFailed
             \/ osArch \in { "linux/ppc64", "linux/ppc64le" } /\ InHostPrep)

\* The probe loop has ended at its deadline and the run has failed.
C19_Witness ==
    /\ untarFile = "" /\ pc = "exited" /\ exitCode = 1
    /\ netResult = "false" /\ fatalMsg = "network didn't become reachable"
    /\ worker = "none"

\* The positions of args that hold one of the flags.
FlagPositions(args, flags) == { i \in 1..Len(args) : args[i].flag \in flags }

\* C20: an argument vector that reaches the launch holds at most one
\* reverse-registration flag and at most one --coordinator, --workdir and
\* --halt argument, and the rules keyed on GO_BUILDER_ENV and the rules
\* keyed on os/arch have not both added arguments to it.
C20_OneRuleSetContributes ==
    argsBuilt =>
        /\ Cardinality(FlagPositions(cmdArgs, { "--reverse", "--reverse-type" })) <= 1
        /\ Cardinality(FlagPositions(cmdArgs, { "--coordinator" })) <= 1
        /\ Cardinality(FlagPositions(cmdArgs, { "--workdir" })) <= 1
        /\ Cardinality(FlagPositions(cmdArgs, { "--halt" })) <= 1
        /\ goBuilderEnv \in { "linux-arm-arm5spacemonkey", "host-linux-arm-scaleway" } =>
             osArch \notin { "linux/s390x", "linux/arm64", "linux/ppc64",
                             "linux/ppc64le", "solaris/amd64" }

====
